---------------------------- MODULE Spec2Model ----------------------------
(***************************************************************************)
(* Model of jsonstore/client.go: the HTTP client of a path-addressed JSON  *)
(* store.  Strings that the code inspects (URL paths, key paths) are       *)
(* sequences of one-character strings; JSON texts are abstract syntax      *)
(* (one record per document); Go values are tagged records.                *)
(***************************************************************************)
EXTENDS Integers, Sequences, FiniteSets, TLC

\* ------------------------------------------------------------------ bounds

\* Longest base path / key path drawn for createURL.
MaxLen == 3
\* Number of NewClient calls a behaviour makes.
MaxClients == 2

\* ------------------------------------------------------- program constants

TIMEOUT_SECONDS == 5
StatusOK == 200

\* ----------------------------------------------------------------- strings

Chars == {"/", ".", "a", " "}

PathStrings == UNION {[1..n -> Chars] : n \in 0..MaxLen}

RECURSIVE Split(_)
\* strings.Split(s, "/"): the segments of s, empty ones included.
Split(s) ==
    IF s = <<>> THEN << <<>> >>
    ELSE LET rest == Split(Tail(s)) IN
         IF Head(s) = "/" THEN << <<>> >> \o rest
         ELSE << <<Head(s)>> \o Head(rest) >> \o Tail(rest)

RECURSIVE JoinSegs(_)
\* strings.Join(segs, "/")
JoinSegs(segs) ==
    IF segs = <<>> THEN <<>>
    ELSE IF Len(segs) = 1 THEN segs[1]
    ELSE segs[1] \o <<"/">> \o JoinSegs(Tail(segs))

RECURSIVE CleanSegs(_, _, _)
\* The element-wise rules of path.Clean, left to right over the segments:
\* empty and "." elements are dropped, ".." removes the element before it,
\* is dropped at the root and is kept at the front of a relative path.
CleanSegs(segs, rooted, out) ==
    IF segs = <<>> THEN out
    ELSE LET s == Head(segs) IN
         IF s = <<>> \/ s = <<".">>
         THEN CleanSegs(Tail(segs), rooted, out)
         ELSE IF s = <<".", ".">>
         THEN IF out # <<>> /\ out[Len(out)] # <<".", ".">>
              THEN CleanSegs(Tail(segs), rooted, SubSeq(out, 1, Len(out) - 1))
              ELSE IF rooted
              THEN CleanSegs(Tail(segs), rooted, out)
              ELSE CleanSegs(Tail(segs), rooted, Append(out, s))
         ELSE CleanSegs(Tail(segs), rooted, Append(out, s))

\* path.Clean
Clean(p) ==
    IF p = <<>> THEN <<".">>
    ELSE LET rooted == p[1] = "/"
             body   == JoinSegs(CleanSegs(Split(p), rooted, <<>>))
         IN  IF rooted THEN <<"/">> \o body
             ELSE IF body = <<>> THEN <<".">> ELSE body

\* path.Join(a, b): empty elements are ignored, the rest is joined with "/"
\* and cleaned; the empty string when every element is empty.
Join(a, b) ==
    IF a = <<>> /\ b = <<>> THEN <<>>
    ELSE IF a = <<>> THEN Clean(b)
    ELSE IF b = <<>> THEN Clean(a)
    ELSE Clean(a \o <<"/">> \o b)

RECURSIVE Escape(_)
\* url.URL.EscapedPath for a URL whose RawPath is empty: a space is
\* percent-encoded, letters, "." and "/" are kept.
Escape(p) ==
    IF p = <<>> THEN <<>>
    ELSE (IF Head(p) = " " THEN <<"%", "2", "0">> ELSE <<Head(p)>>)
         \o Escape(Tail(p))

\* url.URL.String for a URL with a scheme and a host and nothing but a path:
\* the first element stands for "scheme://host".
String(u) ==
    << u.Scheme \o "://" \o u.Host >>
    \o (IF u.Path # <<>> /\ u.Path[1] # "/" THEN <<"/">> ELSE <<>>)
    \o Escape(u.Path)

\* url.Parse("https://www.jsonstore.io")
ParsedJsonstoreUrl == [Scheme |-> "https", Host |-> "www.jsonstore.io", Path |-> <<>>]


\* ------------------------------------------------------- JSON and Go values

\* An integer: n, or 2^53 + n when big (2^53 itself does not fit TLC's
\* integers; only the offset from it is computed with).
Num(big, n) == [big |-> big, n |-> n]

NoNum == Num(FALSE, 0)

\* The nearest float64 of an integer in 0 .. 2^54: exact up to 2^53, and
\* above it the nearest even integer, ties to the even mantissa.
Float64Of(x) ==
    IF ~x.big \/ x.n % 2 = 0 THEN x
    ELSE IF ((x.n - 1) \div 2) % 2 = 0 THEN Num(TRUE, x.n - 1)
    ELSE Num(TRUE, x.n + 1)

\* Go values: the caller's v and *out, and what an interface{} holds.
GoValue(t, n, s) == [t |-> t, n |-> n, s |-> s]
GoNil        == GoValue("nil", NoNum, "")
GoInt64(n)   == GoValue("int64", n, "")
GoFloat64(n) == GoValue("float64", n, "")
GoString(s)  == GoValue("string", NoNum, s)
GoChan       == GoValue("chan", NoNum, "")

\* JSON texts, as their syntax: null, a number literal, a string literal, or
\* bytes that are no JSON document.
Doc(j, n, s) == [j |-> j, n |-> n, s |-> s]
NullDoc    == Doc("null", NoNum, "")
NumDoc(n)  == Doc("num", n, "")
StrDoc(s)  == Doc("str", NoNum, s)
GarbageDoc == Doc("garbage", NoNum, "")

\* No bytes (a nil []byte or a nil io.Reader).
NoDoc == Doc("none", NoNum, "")

\* The error values the operations return.
Err(kind, status, key) == [kind |-> kind, status |-> status, key |-> key]
NilErr            == Err("nil", 0, <<>>)
\* fmt.Errorf("Non OK status: %d", status)
NonOKStatus(st)   == Err("NonOKStatus", st, <<>>)
\* the error of http.Client.Do (connection, DNS) or of reading the body
TransportErr      == Err("Transport", 0, <<>>)
\* the error of http.Client.Do or of a body read once Client.Timeout passed
TimeoutErr        == Err("Timeout", 0, <<>>)
\* a json syntax error: the body is no envelope
SyntaxErr         == Err("Syntax", 0, <<>>)
\* json.UnsupportedTypeError of json.Marshal
UnsupportedErr    == Err("UnsupportedType", 0, <<>>)
\* json.UnmarshalTypeError of json.Unmarshal
UnmarshalTypeErr  == Err("UnmarshalType", 0, <<>>)
ErrNoValue        == Err("ErrNoValue", 0, <<>>)
\* fmt.Errorf("Could not get resource '%s'", key)
CouldNotGet(key)  == Err("CouldNotGet", 0, key)
\* fmt.Errorf("Failed to store resource at '%s'", key)
FailedToStore(key) == Err("FailedToStore", 0, key)

\* json.Marshal of a Go value: [doc, err].
Marshal(v) ==
    CASE v.t = "nil"     -> [doc |-> NullDoc, err |-> NilErr]
      [] v.t = "int64"   -> [doc |-> NumDoc(v.n), err |-> NilErr]
      [] v.t = "float64" -> [doc |-> NumDoc(v.n), err |-> NilErr]
      [] v.t = "string"  -> [doc |-> StrDoc(v.s), err |-> NilErr]
      [] OTHER           -> [doc |-> NoDoc, err |-> UnsupportedErr]

\* json.Unmarshal of a valid document into an interface{}: a number becomes
\* a float64.
DecodeIface(d) ==
    CASE d.j = "null" -> GoNil
      [] d.j = "num"  -> GoFloat64(Float64Of(d.n))
      [] d.j = "str"  -> GoString(d.s)
      [] OTHER        -> GoNil

\* json.Unmarshal(doc, out) for out pointing at a variable that holds cur:
\* [val, err], val the variable afterwards.  null leaves a non-pointer
\* variable as it is; a literal of another type is an UnmarshalTypeError.
Unmarshal(d, cur) ==
    CASE d.j = "garbage" -> [val |-> cur, err |-> SyntaxErr]
      [] cur.t \in {"nil", "float64"} /\ d.j # "garbage" ->
             \* *interface{}
             [val |-> DecodeIface(d), err |-> NilErr]
      [] d.j = "null" -> [val |-> cur, err |-> NilErr]
      [] cur.t = "int64" /\ d.j = "num" -> [val |-> GoInt64(d.n), err |-> NilErr]
      [] cur.t = "string" /\ d.j = "str" -> [val |-> GoString(d.s), err |-> NilErr]
      [] OTHER -> [val |-> cur, err |-> UnmarshalTypeErr]

\* The bytes of a response body: an envelope {"result": ..., "ok": ...}, or
\* bytes that do not decode as one (valid = FALSE).
Envelope(result, ok) == [valid |-> TRUE, result |-> result, ok |-> ok]
BadBody == [valid |-> FALSE, result |-> NullDoc, ok |-> FALSE]

\* The envelope text around a stored body: it is a JSON document only when
\* the stored body is one.
EnvelopeAround(d, ok) == IF d.j = "garbage" THEN BadBody ELSE Envelope(d, ok)

\* json decoding of a body into Response{Result interface{}, OK bool}:
\* [Result, OK, err].
DecodeResponse(body) ==
    IF body.valid
    THEN [Result |-> DecodeIface(body.result), OK |-> body.ok, err |-> NilErr]
    ELSE [Result |-> GoNil, OK |-> FALSE, err |-> SyntaxErr]


\* ------------------------------------------------------------------- state

VARIABLES
    JsonstoreUrl,   \* the url.URL the package variable JsonstoreUrl points to
    clients,        \* the HttpClients constructed so far, in order
    call,           \* the operation in progress, or the last one returned
    store           \* the store double: request URL -> the body last written

vars == <<JsonstoreUrl, clients, call, store>>

\* Store identifiers handed to NewClient, key paths handed to the operations.
StoreKeys == {<<"s">>, <<"t">>}
Keys == {<<"k">>}

\* Values handed to Post and Put; chan is a type json.Marshal rejects.
Values == {GoNil, GoInt64(Num(FALSE, 1)), GoInt64(Num(TRUE, 1)), GoChan}
\* Byte payloads handed to PostBytes and PutBytes.
RawBodies == {NullDoc, NumDoc(Num(FALSE, 1)), NumDoc(Num(TRUE, 1)), GarbageDoc}
\* The variables Get is handed a pointer to: an int64 and an interface{}.
OutVars == {GoInt64(Num(FALSE, 0)), GoNil}

\* Responses of a store that need not follow its contract.
Statuses == {200, 201, 400, 500}
Bodies == {Envelope(r, ok) : r \in {NullDoc, NumDoc(Num(FALSE, 1)), StrDoc("x")},
                             ok \in BOOLEAN} \cup {BadBody}

ReadOps  == {"Get", "GetBytes"}
WriteOps == {"Post", "PostBytes", "Put", "PutBytes", "Delete"}

NoResp == [status |-> 0, body |-> BadBody]
NoBytes == [some |-> FALSE, body |-> BadBody]
Bytes(b) == [some |-> TRUE, body |-> b]

Idle == [pc |-> "idle", op |-> "none", client |-> 0, key |-> <<>>,
         method |-> "", url |-> <<>>, body |-> NoDoc, v |-> GoNil,
         sent |-> 0, resp |-> NoResp, faithful |-> FALSE, bodyRead |-> FALSE,
         out0 |-> GoNil, out |-> GoNil, ret |-> NoBytes, err |-> NilErr]

\* An http.Client left at its zero Timeout.
createNetHttpClient_NoTimeout == [Timeout |-> 0]

\* createNetHttpClient: an http.Client whose Timeout is TIMEOUT_SECONDS
\* (a Timeout of zero means no timeout).
createNetHttpClient == [Timeout |-> TIMEOUT_SECONDS]

\* The URL a client's baseURL points to: NewClient stores the package
\* pointer itself, so every client's baseURL is the one shared url.URL.
BaseURLOf(c) == JsonstoreUrl

\* createURL by plain concatenation instead of path.Join.
createURL_Concat(base, resourcePath) ==
    [ret  |-> String([base EXCEPT !.Path = base.Path \o <<"/">> \o resourcePath]),
     base |-> base]

\* createURL: a copy of the base with the key path joined to its path, as a
\* string; base is the URL c.baseURL points to after the call.
createURL(base, resourcePath) ==
    [ret  |-> String([base EXCEPT !.Path = Join(base.Path, resourcePath)]),
     base |-> base]

\* The URLs the store double serves.
StoreURLs == {createURL([ParsedJsonstoreUrl EXCEPT !.Path = sk], k).ret :
                  sk \in StoreKeys, k \in Keys}

Init ==
    /\ JsonstoreUrl = ParsedJsonstoreUrl
    /\ clients = <<>>
    /\ call = Idle
    /\ store = [u \in StoreURLs |-> NoDoc]

\* NewClient(storeKey): the package-level URL's path is set to storeKey and
\* the client keeps the pointer (storeKey is remembered for the properties).
NewClient(storeKey) ==
    /\ Len(clients) < MaxClients
    /\ JsonstoreUrl' = [JsonstoreUrl EXCEPT !.Path = storeKey]
    /\ clients' = Append(clients, [httpClient |-> createNetHttpClient,
                                   baseURL    |-> "JsonstoreUrl",
                                   storeKey   |-> storeKey])
    /\ UNCHANGED <<call, store>>

\* A failing status is answered by sending the request once more.
Return_RetryOnStatus(c, err) ==
    IF err.kind = "NonOKStatus" /\ c.sent < 2
    THEN [c EXCEPT !.pc = "sent", !.sent = @ + 1, !.resp = NoResp]
    ELSE [c EXCEPT !.pc = "done", !.err = err]

\* An operation returns err (with whatever else the call record holds).
Return(c, err) == [c EXCEPT !.pc = "done", !.err = err]

\* newRequest and the start of http.Client.Do: one request leaves.
Send(c, op, method, key, body, v, out0) ==
    [Idle EXCEPT !.pc = "sent", !.op = op, !.client = c, !.key = key,
                 !.method = method,
                 !.url = createURL(BaseURLOf(c), key).ret,
                 !.body = body, !.v = v, !.sent = 1,
                 !.out0 = out0, !.out = out0]

\* The client is stateless across calls: a call starts from nothing but the
\* client and its arguments.
CanBegin(c) == /\ c \in 1..Len(clients)
               /\ call.pc = "idle"

Get(c, key, out0) ==
    /\ CanBegin(c)
    /\ call' = Send(c, "Get", "GET", key, NoDoc, GoNil, out0)
    /\ JsonstoreUrl' = createURL(BaseURLOf(c), key).base
    /\ UNCHANGED <<clients, store>>

GetBytes(c, key) ==
    /\ CanBegin(c)
    /\ call' = Send(c, "GetBytes", "GET", key, NoDoc, GoNil, GoNil)
    /\ JsonstoreUrl' = createURL(BaseURLOf(c), key).base
    /\ UNCHANGED <<clients, store>>

PostBytes(c, key, data) ==
    /\ CanBegin(c)
    /\ call' = Send(c, "PostBytes", "POST", key, data, GoNil, GoNil)
    /\ JsonstoreUrl' = createURL(BaseURLOf(c), key).base
    /\ UNCHANGED <<clients, store>>

PutBytes(c, key, data) ==
    /\ CanBegin(c)
    /\ call' = Send(c, "PutBytes", "PUT", key, data, GoNil, GoNil)
    /\ JsonstoreUrl' = createURL(BaseURLOf(c), key).base
    /\ UNCHANGED <<clients, store>>

\* Post: json.Marshal first; its error is returned before any request.
Post(c, key, v) ==
    /\ CanBegin(c)
    /\ LET m == Marshal(v) IN
       call' = IF m.err # NilErr
               THEN Return([Idle EXCEPT !.op = "Post", !.client = c,
                                        !.key = key, !.v = v], m.err)
               ELSE Send(c, "Post", "POST", key, m.doc, v, GoNil)
    /\ JsonstoreUrl' = IF Marshal(v).err # NilErr THEN JsonstoreUrl
                       ELSE createURL(BaseURLOf(c), key).base
    /\ UNCHANGED <<clients, store>>

Put(c, key, v) ==
    /\ CanBegin(c)
    /\ LET m == Marshal(v) IN
       call' = IF m.err # NilErr
               THEN Return([Idle EXCEPT !.op = "Put", !.client = c,
                                        !.key = key, !.v = v], m.err)
               ELSE Send(c, "Put", "PUT", key, m.doc, v, GoNil)
    /\ JsonstoreUrl' = IF Marshal(v).err # NilErr THEN JsonstoreUrl
                       ELSE createURL(BaseURLOf(c), key).base
    /\ UNCHANGED <<clients, store>>

Delete(c, key) ==
    /\ CanBegin(c)
    /\ call' = Send(c, "Delete", "DELETE", key, NoDoc, GoNil, GoNil)
    /\ JsonstoreUrl' = createURL(BaseURLOf(c), key).base
    /\ UNCHANGED <<clients, store>>


\* GetBytes with performRequest's status check.
GetBytesStatusFails_From400(status) == status >= 400

\* GetBytes' check of the response status: anything but 200 fails.
GetBytesStatusFails(status) == status # StatusOK

\* The status check with > for >=.
performRequestStatusFails_Above400(status) == status > 400

\* performRequest's check of the response status.
performRequestStatusFails(status) == status >= 400

\* http.Client.Do has returned a response: the status is checked, and on a
\* failing status the operation returns without reading the body.
OnResponse(c, resp, faithful) ==
    LET got == [c EXCEPT !.resp = resp, !.faithful = faithful] IN
    IF (c.op \in ReadOps /\ GetBytesStatusFails(resp.status))
       \/ (c.op \in WriteOps /\ performRequestStatusFails(resp.status))
    THEN Return(got, NonOKStatus(resp.status))
    ELSE [got EXCEPT !.pc = "body"]

\* unmarshallResult: the decoded result is marshalled again and unmarshalled
\* into the caller's variable.
unmarshallResult(resp, cur) ==
    LET m == Marshal(resp.Result) IN
    IF m.err # NilErr THEN [out |-> cur, err |-> m.err]
    ELSE LET u == Unmarshal(m.doc, cur) IN [out |-> u.val, err |-> u.err]

\* Get without its check for a nil result.
GetAfterBytes_NoNilCheck(rawResponse, key, cur) ==
    LET resp == DecodeResponse(rawResponse) IN
    IF resp.err # NilErr THEN [out |-> cur, err |-> resp.err]
    ELSE IF ~resp.OK THEN [out |-> cur, err |-> CouldNotGet(key)]
    ELSE unmarshallResult(resp, cur)

\* Get, from the bytes GetBytes returned: [out, err].
GetAfterBytes(rawResponse, key, cur) ==
    LET resp == DecodeResponse(rawResponse) IN
    IF resp.err # NilErr THEN [out |-> cur, err |-> resp.err]
    ELSE IF resp.Result = GoNil THEN [out |-> cur, err |-> ErrNoValue]
    ELSE IF ~resp.OK THEN [out |-> cur, err |-> CouldNotGet(key)]
    ELSE unmarshallResult(resp, cur)

\* performRequest without its check of the envelope's ok.
performRequestAfterStatus_IgnoreOK(body, key) ==
    LET storeResp == DecodeResponse(body) IN
    IF storeResp.err # NilErr THEN storeResp.err ELSE NilErr

\* performRequest, from the body of a response whose status passed: err.
performRequestAfterStatus(body, key) ==
    LET storeResp == DecodeResponse(body) IN
    IF storeResp.err # NilErr THEN storeResp.err
    ELSE IF ~storeResp.OK THEN FailedToStore(key)
    ELSE NilErr

\* The store double answers the request: it keeps the body of a POST or PUT
\* under the request URL (a body that is no JSON document is refused with
\* ok = false), forgets it on DELETE, and answers GET with what it holds,
\* null when it holds nothing.
StoreDoubleResponse(c) ==
    LET held == IF c.url \in DOMAIN store THEN store[c.url] ELSE NoDoc IN
    CASE c.method = "GET" ->
             [status |-> 200,
              body |-> Envelope(IF held = NoDoc THEN NullDoc ELSE held, TRUE)]
      [] c.method \in {"POST", "PUT"} ->
             [status |-> 200, body |-> Envelope(NullDoc, c.body # GarbageDoc)]
      [] OTHER -> [status |-> 200, body |-> Envelope(NullDoc, TRUE)]

StoreDoubleAfter(c) ==
    IF c.url \notin DOMAIN store THEN store
    ELSE CASE c.method \in {"POST", "PUT"} /\ c.body # GarbageDoc ->
                  [store EXCEPT ![c.url] = c.body]
           [] c.method = "DELETE" -> [store EXCEPT ![c.url] = NoDoc]
           [] OTHER -> store

\* The store double's response reaches the client.
StoreResponds ==
    /\ call.pc = "sent"
    /\ call' = OnResponse(call, StoreDoubleResponse(call), TRUE)
    /\ store' = StoreDoubleAfter(call)
    /\ UNCHANGED <<JsonstoreUrl, clients>>

\* Any other response reaches the client (a store that fails, rejects, or
\* answers with something that is no envelope); the double keeps its state.
OtherResponse(status, body) ==
    /\ call.pc = "sent"
    /\ call' = OnResponse(call, [status |-> status, body |-> body], FALSE)
    /\ UNCHANGED <<JsonstoreUrl, clients, store>>

\* http.Client.Do fails (DNS, connection): its error is returned.
TransportFails ==
    /\ call.pc = "sent"
    /\ call' = Return(call, TransportErr)
    /\ UNCHANGED <<JsonstoreUrl, clients, store>>

\* The body has arrived: GetBytes returns it as it is, Get goes on to decode
\* it, the writes decode it in performRequest.
BodyArrives ==
    /\ call.pc = "body"
    /\ LET got == [call EXCEPT !.bodyRead = TRUE] IN
       call' =
         CASE call.op = "GetBytes" ->
                  Return([got EXCEPT !.ret = Bytes(call.resp.body)], NilErr)
           [] call.op = "Get" ->
                  LET r == GetAfterBytes(call.resp.body, call.key, call.out0)
                  IN  Return([got EXCEPT !.out = r.out], r.err)
           [] OTHER ->
                  Return(got, performRequestAfterStatus(call.resp.body, call.key))
    /\ UNCHANGED <<JsonstoreUrl, clients, store>>

\* Reading the body fails (the connection breaks): the read error is returned.
BodyReadFails ==
    /\ call.pc = "body"
    /\ call' = Return(call, TransportErr)
    /\ UNCHANGED <<JsonstoreUrl, clients, store>>

\* The http.Client's Timeout passes before the exchange is complete: Do, or
\* the body read, ends with a timeout error.
Timeout ==
    /\ call.pc \in {"sent", "body"}
    /\ clients[call.client].httpClient.Timeout > 0
    /\ call' = Return(call, TimeoutErr)
    /\ UNCHANGED <<JsonstoreUrl, clients, store>>

\* The caller has taken the result; nothing of the call is kept.
Finish ==
    /\ call.pc = "done"
    /\ call' = Idle
    /\ UNCHANGED <<JsonstoreUrl, clients, store>>

Next ==
    \/ \E sk \in StoreKeys : NewClient(sk)
    \/ \E c \in 1..MaxClients, key \in Keys, out0 \in OutVars : Get(c, key, out0)
    \/ \E c \in 1..MaxClients, key \in Keys : GetBytes(c, key)
    \/ \E c \in 1..MaxClients, key \in Keys, v \in Values : Post(c, key, v)
    \/ \E c \in 1..MaxClients, key \in Keys, d \in RawBodies : PostBytes(c, key, d)
    \/ \E c \in 1..MaxClients, key \in Keys, v \in Values : Put(c, key, v)
    \/ \E c \in 1..MaxClients, key \in Keys, d \in RawBodies : PutBytes(c, key, d)
    \/ \E c \in 1..MaxClients, key \in Keys : Delete(c, key)
    \/ StoreResponds
    \/ \E st \in Statuses, b \in Bodies : OtherResponse(st, b)
    \/ TransportFails
    \/ BodyArrives
    \/ BodyReadFails
    \/ Timeout
    \/ Finish

Spec == Init /\ [][Next]_vars

\* The Go runtime fires the http.Client's timer: a call that is still
\* waiting when the timeout passes is ended.
LiveSpec == Spec /\ WF_vars(Timeout)


\* ---------------------------------------------------- createURL on its own

\* A client constructed from any store identifier up to MaxLen characters.
InitURL ==
    /\ \E base \in PathStrings :
          /\ JsonstoreUrl = [ParsedJsonstoreUrl EXCEPT !.Path = base]
          /\ clients = << [httpClient |-> createNetHttpClient,
                           baseURL    |-> "JsonstoreUrl",
                           storeKey   |-> base] >>
    /\ call = Idle
    /\ store = [u \in StoreURLs |-> NoDoc]

\* c.createURL(key) for any key path up to MaxLen characters.
CreateURLCall(key) ==
    /\ call.pc = "idle"
    /\ call' = [Idle EXCEPT !.pc = "url", !.client = 1, !.key = key,
                            !.url = createURL(BaseURLOf(1), key).ret]
    /\ JsonstoreUrl' = createURL(BaseURLOf(1), key).base
    /\ UNCHANGED <<clients, store>>

\* The same call once more.
CreateURLAgain ==
    /\ call.pc = "url"
    /\ call' = [call EXCEPT !.pc = "url2",
                            !.url = createURL(BaseURLOf(1), call.key).ret]
    /\ JsonstoreUrl' = createURL(BaseURLOf(1), call.key).base
    /\ UNCHANGED <<clients, store>>

NextURL ==
    \/ \E key \in PathStrings : CreateURLCall(key)
    \/ CreateURLAgain

SpecURL == InitURL /\ [][NextURL]_vars


\* -------------------------------------------------------------- properties

\* The response of the call was received completely with status 200.
Got200 == call.pc = "done" /\ call.bodyRead /\ call.resp.status = 200

\* C1: Get answered with 200 and {"result": null, "ok": true} returns
\* ErrNoValue, and no other error, and leaves the caller's variable as it was.
C1_NullResultIsErrNoValue ==
    (Got200 /\ call.op = "Get" /\ call.resp.body = Envelope(NullDoc, TRUE))
        => (call.err = ErrNoValue /\ call.out = call.out0)

C1_Witness ==
    /\ Got200 /\ call.op = "Get" /\ call.resp.body = Envelope(NullDoc, TRUE)
    /\ call.out0 = GoInt64(Num(FALSE, 0))
    /\ call.err = ErrNoValue

\* C2: whatever the operation, a response with status 400 or more ends it
\* with the "Non OK status" error carrying that status; the body is never
\* read, so the outcome is the same for every body, and nothing is handed to
\* the caller.
C2_Status400AndAboveFails ==
    /\ (call.pc = "done" /\ call.resp.status >= 400)
          => /\ call.err = NonOKStatus(call.resp.status)
             /\ ~call.bodyRead
             /\ call.out = call.out0
             /\ call.ret = NoBytes
    /\ call.pc = "body" => call.resp.status < 400

C2_Witness ==
    /\ call.pc = "done" /\ call.op = "Put"
    /\ call.resp = [status |-> 500, body |-> Envelope(NullDoc, TRUE)]
    /\ call.err = NonOKStatus(500)

\* C3: a write answered with 200 and an envelope whose ok is false returns
\* the "Failed to store" error for its key, whatever the result; a write
\* returns nil only for a decodable envelope whose ok is true.
C3_WriteRejectedWhenNotOK ==
    /\ (Got200 /\ call.op \in WriteOps /\ call.resp.body.valid
            /\ ~call.resp.body.ok)
          => call.err = FailedToStore(call.key)
    /\ (call.pc = "done" /\ call.op \in WriteOps /\ call.err = NilErr)
          => (call.bodyRead /\ call.resp.body.valid /\ call.resp.body.ok)

C3_Witness ==
    /\ Got200 /\ call.op = "Delete"
    /\ call.resp.body = Envelope(NumDoc(Num(FALSE, 1)), FALSE)
    /\ call.err = FailedToStore(call.key)

\* C4: every request of a client targets the base path the client was
\* constructed with, whatever NewClient calls were made since.
C4_BaseURLImmutable ==
    call.sent >= 1 =>
        call.url = String([ParsedJsonstoreUrl EXCEPT
                              !.Path = Join(clients[call.client].storeKey,
                                            call.key)])

SchemeHost == "https://www.jsonstore.io"

\* The non-empty segments of a slash-delimited path.
NonEmptySegs(p) == SelectSeq(Split(p), LAMBDA x : x # <<>>)

HasDotSeg(p) == \E i \in 1..Len(Split(p)) : Split(p)[i] \in {<<".">>, <<".", ".">>}

HasDoubledSlash(q) == \E i \in 1..(Len(q) - 1) : q[i] = "/" /\ q[i + 1] = "/"

\* A path with no "." or ".." segment, no doubled and no trailing slash.
IsCleanPath(p) ==
    \/ p = <<>>
    \/ p = <<"/">>
    \/ ~HasDotSeg(p) /\ ~HasDoubledSlash(p) /\ p[Len(p)] # "/"

\* The segments of the base path followed by those of the key path.
JoinedSegs == NonEmptySegs(JsonstoreUrl.Path) \o NonEmptySegs(call.key)

\* C6 as claimed: for every base URL and every key path, createURL keeps
\* scheme and host and joins the segments of the base path and of the key
\* path with exactly one "/" each, and for the empty key path the result is
\* the base URL itself.
C6_JoinsEveryBaseAndKey ==
    call.pc \in {"url", "url2"} =>
        /\ call.url[1] = SchemeHost
        /\ ~HasDoubledSlash(Tail(call.url))
        /\ JoinedSegs # <<>> =>
               Tail(call.url) = <<"/">> \o Escape(JoinSegs(JoinedSegs))
        /\ call.key = <<>> => call.url = String(JsonstoreUrl)

\* What createURL returns, for every base path and key path.
C6_CleanJoin ==
    call.pc \in {"url", "url2"} =>
        /\ call.url[1] = SchemeHost
        /\ ~HasDoubledSlash(Tail(call.url))
        /\ Len(call.url) > 1 =>
               /\ call.url[2] = "/"
               /\ call.url[Len(call.url)] # "/" \/ Len(call.url) = 2
        /\ (~HasDotSeg(JsonstoreUrl.Path) /\ ~HasDotSeg(call.key)
                /\ JoinedSegs # <<>>) =>
               Tail(call.url) = <<"/">> \o Escape(JoinSegs(JoinedSegs))
        /\ (call.key = <<>> /\ IsCleanPath(JsonstoreUrl.Path)) =>
               call.url = String(JsonstoreUrl)

\* C6, amended: createURL keeps scheme and host and returns the cleaned join
\* of base path and key path: rooted at "/", with no doubled and no trailing
\* "/"; when neither path has a "." or ".." segment, it is the segments of
\* the base path followed by those of the key path with one "/" before each;
\* for the empty key path it is the base URL itself when the base path is
\* clean (no "." or ".." segment, no doubled or trailing "/").  The same
\* inputs give the same result on every call, and the stored base URL is
\* left unchanged.
C6_CreateURLAmended ==
    /\ []C6_CleanJoin
    /\ [][JsonstoreUrl' = JsonstoreUrl]_vars
    /\ [][(call.pc = "url" /\ call'.pc = "url2") => call'.url = call.url]_vars

C6_Witness ==
    /\ call.pc = "url2"
    /\ JsonstoreUrl.Path = <<"a">>
    /\ call.key = <<"a", "/", "a">>
    /\ call.url = <<SchemeHost, "/", "a", "/", "a", "/", "a">>

\* C7: against the store double, Get after a successful Post or Put of v at
\* the same key returns nil and leaves the caller's variable (of v's type)
\* equal to v.
C7_RoundTrip ==
    \A v \in Values :
        (/\ Got200 /\ call.op = "Get" /\ call.faithful
         /\ Marshal(v).err = NilErr
         /\ store[call.url] = Marshal(v).doc
         /\ call.out0.t = v.t)
            => (call.err = NilErr /\ call.out = v)

Waiting == call.pc \in {"sent", "body"}

\* C8: every call returns: one that is waiting for the store ends, at the
\* latest by the timeout error of the client's 5 second Timeout, also when
\* the store never answers.
C8_EveryCallReturns ==
    /\ [](\A i \in 1..Len(clients) :
              clients[i].httpClient.Timeout = TIMEOUT_SECONDS)
    /\ Waiting ~> (call.pc = "done")

C8_Witness ==
    /\ call.pc = "done" /\ call.err = TimeoutErr
    /\ call.resp = NoResp /\ call.sent = 1

\* C9: a call sends at most one request, whatever its outcome, and returns
\* after the first failure; Post and Put of a value that cannot be
\* serialized return the serialization error and send none.
C9_AtMostOneRequest ==
    /\ call.sent <= 1
    /\ Waiting => call.sent = 1
    /\ (call.pc = "done" /\ call.sent = 1 /\ ~call.bodyRead
            /\ call.resp # NoResp)
          => call.err \in {NonOKStatus(call.resp.status), TransportErr,
                           TimeoutErr}
    /\ (call.pc = "done" /\ call.op \in {"Post", "Put"}
            /\ Marshal(call.v).err # NilErr)
          => (call.sent = 0 /\ call.err = Marshal(call.v).err)

C9_Witness ==
    /\ call.pc = "done" /\ call.sent = 1
    /\ call.op = "PostBytes"
    /\ call.err = NonOKStatus(500)

\* C10: with ok = false the result decides nothing: a 200 response whose
\* envelope has ok = false gives the same error whatever its result (for Get
\* the "Could not get" error, for a write the "Failed to store" error), and
\* nothing of it reaches the caller.
C10_ResultIgnoredWhenNotOK ==
    (Got200 /\ call.resp.body.valid /\ ~call.resp.body.ok)
        => /\ call.op \in ReadOps => call.err = CouldNotGet(call.key)
           /\ call.op \in WriteOps => call.err = FailedToStore(call.key)
           /\ call.out = call.out0
           /\ call.ret = NoBytes

=============================================================================
